---- MODULE Spec2Model ----
(***************************************************************************)
(* Model of the text-version storage engine (src/src/TextVersion.ts).      *)
(*                                                                         *)
(* A JavaScript string is a sequence of one-character strings, so that the *)
(* record format, the escape codec and the edit-script codec are computed  *)
(* character by character as the code computes them.  Indices passed to    *)
(* the string helpers are the 0-based indices of the code.                 *)
(***************************************************************************)
EXTENDS Integers, Sequences, FiniteSets, TLC

\* ------------------------------------------------------------------------
\* Values that are not strings
\* ------------------------------------------------------------------------

\* null, as returned by getVersionText for an unknown version.
Null == <<"null">>

\* undefined, the result of reading a missing key of an object.
Undefined == <<"undefined">>

\* "RangeError: Maximum call stack size exceeded", thrown by unbounded
\* recursion of getVersionText.
RangeError == <<"RangeError">>

\* parseInt's NaN.
NaN == -1

BS == "\\"
NL == "\n"
CR == "\r"
TAB == "\t"

\* ------------------------------------------------------------------------
\* String primitives
\* ------------------------------------------------------------------------

Min(a, b) == IF a < b THEN a ELSE b

Max(a, b) == IF a > b THEN a ELSE b

\* An index argument clamped to [0, length].
clamp(i, length) == Max(0, Min(i, length))

\* s.substring(a, b): both indices clamped to [0, s.length], swapped if a > b.
substring(s, a, b) ==
    SubSeq(s, Min(clamp(a, Len(s)), clamp(b, Len(s))) + 1,
              Max(clamp(a, Len(s)), clamp(b, Len(s))))

\* s.substring(a)
substringFrom(s, a) == substring(s, a, Len(s))

\* The least of a set of indices; -1 when there is none.
firstIndex(hits) ==
    IF hits = {} THEN -1 ELSE CHOOSE i \in hits : \A j \in hits : i <= j

\* s.indexOf(c, from) for a one-character c; -1 when absent.
indexOf(s, c, from) ==
    firstIndex({i \in Max(0, from)..(Len(s) - 1) : s[i + 1] = c})

\* s.includes(c) for a one-character c.
includes(s, c) == \E i \in 1..Len(s) : s[i] = c

\* s.startsWith(c) for a one-character c.
startsWith(s, c) == Len(s) > 0 /\ s[1] = c

\* The characters String.prototype.trim removes (those the model's alphabet has).
isWhiteSpace(c) == c = " " \/ c = NL \/ c = CR \/ c = TAB

\* !s.trim(): the string is empty or all white space.
isBlank(s) == \A i \in 1..Len(s) : isWhiteSpace(s[i])

DecDigits == <<"0", "1", "2", "3", "4", "5", "6", "7", "8", "9">>

isDigit(c) == \E i \in 1..10 : DecDigits[i] = c

digitValue(c) == (CHOOSE i \in 1..10 : DecDigits[i] = c) - 1

\* `${n}` for a non-negative integer n.
RECURSIVE numberToString(_)
numberToString(n) ==
    IF n < 10 THEN <<DecDigits[n + 1]>>
    ELSE numberToString(n \div 10) \o <<DecDigits[(n % 10) + 1]>>

\* The length of the longest prefix of s made of decimal digits.
RECURSIVE digitPrefixLength(_)
digitPrefixLength(s) ==
    IF Len(s) > 0 /\ isDigit(s[1]) THEN 1 + digitPrefixLength(Tail(s)) ELSE 0

RECURSIVE digitsValue(_, _)
digitsValue(s, acc) ==
    IF Len(s) = 0 THEN acc ELSE digitsValue(Tail(s), acc * 10 + digitValue(s[1]))

\* parseInt(s): the value of the leading decimal digits, NaN when there are
\* none (the lines of a storage carry neither signs nor leading white space).
parseInt(s) ==
    IF digitPrefixLength(s) = 0 THEN NaN
    ELSE digitsValue(SubSeq(s, 1, digitPrefixLength(s)), 0)

\* s.split('\n')
RECURSIVE split(_)
splitAt(s, i) ==
    IF i = -1 THEN <<s>>
    ELSE <<substring(s, 0, i)>> \o split(substringFrom(s, i + 1))

split(s) == splitAt(s, indexOf(s, NL, 0))

\* lines.join('\n')
RECURSIVE join(_)
join(lines) ==
    IF Len(lines) = 0 THEN <<>>
    ELSE IF Len(lines) = 1 THEN lines[1]
    ELSE lines[1] \o <<NL>> \o join(Tail(lines))

\* s.replace(/c/g, rep) for a one-character pattern c.
RECURSIVE replaceChar(_, _, _)
replaceChar(s, c, rep) ==
    IF Len(s) = 0 THEN <<>>
    ELSE (IF s[1] = c THEN rep ELSE <<s[1]>>) \o replaceChar(Tail(s), c, rep)

\* s.replace(/ab/g, rep) for a two-character pattern: leftmost matches first,
\* matches do not overlap.
RECURSIVE replacePair(_, _, _, _)
replacePair(s, a, b, rep) ==
    IF Len(s) < 2 THEN s
    ELSE IF s[1] = a /\ s[2] = b
         THEN rep \o replacePair(SubSeq(s, 3, Len(s)), a, b, rep)
         ELSE <<s[1]>> \o replacePair(Tail(s), a, b, rep)

\* ------------------------------------------------------------------------
\* Escape codec
\* ------------------------------------------------------------------------

escapeString(str) ==
    replaceChar(replaceChar(replaceChar(replaceChar(str,
        BS, <<BS, BS>>), NL, <<BS, "n">>), CR, <<BS, "r">>), TAB, <<BS, "t">>)

unescapeString(str) ==
    replacePair(replacePair(replacePair(replacePair(str,
        BS, "t", <<TAB>>), BS, "r", <<CR>>), BS, "n", <<NL>>), BS, BS, <<BS>>)

\* ------------------------------------------------------------------------
\* Diff codec
\* ------------------------------------------------------------------------

\* A DiffOperation: retain and delete carry a length, insert carries a text.
Retain(n) == [type |-> "retain", length |-> n, text |-> <<>>]

Delete(n) == [type |-> "delete", length |-> n, text |-> <<>>]

Insert(t) == [type |-> "insert", length |-> 0, text |-> t]

\* Arithmetic on numbers that may be NaN.
plus(a, b) == IF a = NaN \/ b = NaN THEN NaN ELSE a + b

\* The integer an index argument is converted to (NaN counts as 0).
toIndex(a) == IF a = NaN THEN 0 ELSE a

\* The operations left once the trailing retains are popped.
RECURSIVE dropTrailingRetain(_)
dropTrailingRetain(operations) ==
    IF Len(operations) > 0 /\ operations[Len(operations)].type = "retain"
    THEN dropTrailingRetain(SubSeq(operations, 1, Len(operations) - 1))
    ELSE operations

encodeOperation(op) ==
    CASE op.type = "retain" -> <<"R">> \o numberToString(op.length)
      [] op.type = "delete" -> <<"D">> \o numberToString(op.length)
      [] op.type = "insert" ->
            <<"I">> \o numberToString(Len(op.text)) \o <<":">> \o op.text

RECURSIVE encodeOperations(_)
encodeOperations(ops) ==
    IF Len(ops) = 0 THEN <<>>
    ELSE encodeOperation(ops[1]) \o encodeOperations(Tail(ops))

\* An encoding that leaves no operation out.
encodeEveryOperation(operations) == encodeOperations(operations)

encodeDiff(operations) == encodeOperations(dropTrailingRetain(operations))

\* The loop of decodeDiff from index i on (i is NaN once a length was NaN,
\* which ends the loop).
RECURSIVE decodeDiffFrom(_, _)

\* An 'R' or 'D' whose digits are encoded[j .. j + n - 1].
decodeCount(encoded, opType, j, n) ==
    <<(IF opType = "R" THEN Retain(parseInt(substring(encoded, j, j + n)))
       ELSE Delete(parseInt(substring(encoded, j, j + n))))>>
        \o decodeDiffFrom(encoded, j + n)

\* An 'I' whose text starts at k and has the given length.
decodeText(encoded, k, length) ==
    <<Insert(substring(encoded, k, toIndex(plus(k, length))))>>
        \o decodeDiffFrom(encoded, plus(k, length))

\* An 'I' whose length is encoded[j .. colon - 1].
decodeInsert(encoded, j, colon) ==
    decodeText(encoded, colon + 1, parseInt(substring(encoded, j, colon)))

\* The index of the first ':' from j on, or encoded.length when there is none.
colonFrom(encoded, j) ==
    IF indexOf(encoded, ":", j) = -1 THEN Len(encoded)
    ELSE indexOf(encoded, ":", j)

decodeDiffFrom(encoded, i) ==
    IF i = NaN \/ i >= Len(encoded) THEN <<>>
    ELSE IF encoded[i + 1] = "R" \/ encoded[i + 1] = "D"
    THEN decodeCount(encoded, encoded[i + 1], i + 1,
                     digitPrefixLength(substringFrom(encoded, i + 1)))
    ELSE IF encoded[i + 1] = "I"
    THEN decodeInsert(encoded, i + 1, colonFrom(encoded, i + 1))
    ELSE decodeDiffFrom(encoded, i + 1)

decodeDiff(encoded) == decodeDiffFrom(encoded, 0)

\* The loop of applyDiff: result so far and cursor into text.
RECURSIVE applyDiffFrom(_, _, _, _)

\* One operation of the loop, then the rest.
applyOperation(text, op, rest, result, textIndex) ==
    CASE op.type = "retain" ->
           applyDiffFrom(text, rest,
               result \o substring(text, toIndex(textIndex),
                                   toIndex(plus(textIndex, op.length))),
               plus(textIndex, op.length))
      [] op.type = "delete" ->
           applyDiffFrom(text, rest, result, plus(textIndex, op.length))
      [] op.type = "insert" ->
           applyDiffFrom(text, rest, result \o op.text, textIndex)

applyDiffFrom(text, operations, result, textIndex) ==
    IF Len(operations) = 0
    THEN IF textIndex # NaN /\ textIndex < Len(text)
         THEN result \o substringFrom(text, textIndex)
         ELSE result
    ELSE applyOperation(text, operations[1], Tail(operations), result, textIndex)

applyDiff(text, operations) == applyDiffFrom(text, operations, <<>>, 0)

\* ------------------------------------------------------------------------
\* Diff provider adapter
\* ------------------------------------------------------------------------

RECURSIVE getCommonPrefixLength(_, _)
getCommonPrefixLength(str1, str2) ==
    IF Len(str1) > 0 /\ Len(str2) > 0 /\ str1[1] = str2[1]
    THEN 1 + getCommonPrefixLength(Tail(str1), Tail(str2))
    ELSE 0

RECURSIVE getCommonSuffixLength(_, _)
getCommonSuffixLength(str1, str2) ==
    IF Len(str1) > 0 /\ Len(str2) > 0 /\ str1[Len(str1)] = str2[Len(str2)]
    THEN 1 + getCommonSuffixLength(SubSeq(str1, 1, Len(str1) - 1),
                                   SubSeq(str2, 1, Len(str2) - 1))
    ELSE 0

\* The external provider's diff of two different non-empty texts, as
\* [operation, data] pairs (0 equal, -1 delete, 1 insert).  The provider
\* removes the common prefix, then the common suffix of what is left, and
\* diffs the two middles; for middles with no character in common (all the
\* texts of this model) the result is the first deleted and the second
\* inserted, and the semantic clean-up leaves it unchanged.
\* old1 and new1 are the texts without their common prefix, s is the length
\* of the common suffix of old1 and new1.
diffOfMiddles(prefix, old1, new1, s) ==
    SelectSeq(<< <<0, prefix>>,
                 <<-1, substring(old1, 0, Len(old1) - s)>>,
                 <<1, substring(new1, 0, Len(new1) - s)>>,
                 <<0, substringFrom(old1, Len(old1) - s)>> >>,
              LAMBDA d : Len(d[2]) > 0)

diffAfterPrefix(prefix, old1, new1) ==
    diffOfMiddles(prefix, old1, new1, getCommonSuffixLength(old1, new1))

diffFromPrefix(oldText, newText, p) ==
    diffAfterPrefix(substring(oldText, 0, p), substringFrom(oldText, p),
                    substringFrom(newText, p))

diff_main(oldText, newText) ==
    diffFromPrefix(oldText, newText, getCommonPrefixLength(oldText, newText))

\* Keeps the operations that are not empty.
optimizeSimpleOperations(operations) ==
    SelectSeq(operations,
              LAMBDA op : IF op.type = "insert" THEN Len(op.text) > 0
                          ELSE op.length > 0)

\* The operations of one [operation, data] pair: none when data is empty.
convertOne(operation, data) ==
    IF Len(data) = 0 THEN <<>>
    ELSE CASE operation = 0 -> <<Retain(Len(data))>>
           [] operation = -1 -> <<Delete(Len(data))>>
           [] operation = 1 -> <<Insert(data)>>

RECURSIVE convertEach(_)
convertEach(diffs) ==
    IF Len(diffs) = 0 THEN <<>>
    ELSE convertOne(diffs[1][1], diffs[1][2]) \o convertEach(Tail(diffs))

convertDmpDiffsToOperations(diffs) == optimizeSimpleOperations(convertEach(diffs))

calculateDiff(oldText, newText) ==
    IF oldText = newText
    THEN IF Len(oldText) > 0 THEN <<Retain(Len(oldText))>> ELSE <<>>
    ELSE IF Len(oldText) = 0
    THEN IF Len(newText) > 0 THEN <<Insert(newText)>> ELSE <<>>
    ELSE IF Len(newText) = 0
    THEN <<Delete(Len(oldText))>>
    ELSE convertDmpDiffsToOperations(diff_main(oldText, newText))

\* ------------------------------------------------------------------------
\* Objects used as maps from version names to strings
\* ------------------------------------------------------------------------

emptyObject == [k \in {} |-> <<>>]

\* obj[k]
get(obj, k) == IF k \in DOMAIN obj THEN obj[k] ELSE Undefined

\* obj[k] = v
put(obj, k, v) == [x \in (DOMAIN obj) \cup {k} |-> IF x = k THEN v ELSE obj[x]]

\* The truth value of a string-or-undefined-or-null in a condition.
truthy(x) == x # Undefined /\ x # Null /\ x # <<>>

\* x || ''
orEmpty(x) == IF truthy(x) THEN x ELSE <<>>

\* array.indexOf(x): 0-based, -1 when absent.
arrayIndexOf(array, x) ==
    firstIndex({i \in 0..(Len(array) - 1) : array[i + 1] = x})

arrayIncludes(array, x) == \E i \in 1..Len(array) : array[i] = x

\* ------------------------------------------------------------------------
\* Record codec
\* ------------------------------------------------------------------------

\* What a line that is no record gives.
skipped ==
    [skip |-> TRUE, snapshot |-> FALSE, versionName |-> <<>>, content |-> <<>>]

\* A line, without the ':' a snapshot line starts with, whose first colon and
\* name length are known: skipped, or a version name with its content.
parseName(isSnapshot, body, firstColon, versionNameLength) ==
    IF firstColon = -1 \/ versionNameLength = NaN
       \/ ~startsWith(substringFrom(body, firstColon + 1 + versionNameLength), ":")
    THEN skipped
    ELSE [skip |-> FALSE, snapshot |-> isSnapshot,
          versionName |-> substring(body, firstColon + 1,
                                    firstColon + 1 + versionNameLength),
          content |-> unescapeString(substringFrom(
                          substringFrom(body, firstColon + 1 + versionNameLength),
                          1))]

parseLength(isSnapshot, body, firstColon) ==
    parseName(isSnapshot, body, firstColon,
              parseInt(substring(body, 0, firstColon)))

\* One line of the storage, in the snapshots (line starts with ':') or in
\* the deltas.
parseLine(line) ==
    IF startsWith(line, ":")
    THEN parseLength(TRUE, substringFrom(line, 1),
                     indexOf(substringFrom(line, 1), ":", 0))
    ELSE parseLength(FALSE, line, indexOf(line, ":", 0))

emptyData == [versions |-> <<>>, snapshots |-> emptyObject, deltas |-> emptyObject]

\* result with the record r of a line, if the line is one.
addRecord(result, r) ==
    IF r.skip THEN result
    ELSE IF r.snapshot
    THEN [result EXCEPT !.versions = Append(@, r.versionName),
                        !.snapshots = put(@, r.versionName, r.content)]
    ELSE [result EXCEPT !.versions = Append(@, r.versionName),
                        !.deltas = put(@, r.versionName, r.content)]

RECURSIVE parseLines(_, _)
parseLines(lines, result) ==
    IF Len(lines) = 0 THEN result
    ELSE parseLines(Tail(lines),
                    IF isBlank(lines[1]) THEN result
                    ELSE addRecord(result, parseLine(lines[1])))

parseStorage(storage) ==
    IF isBlank(storage) THEN emptyData ELSE parseLines(split(storage), emptyData)

\* `${version.length}:${version}:`
recordPrefix(version) ==
    numberToString(Len(version)) \o <<":">> \o version \o <<":">>

\* The line of a version: none when it has neither a snapshot nor a delta
\* that is truthy.
serializeLine(data, version) ==
    IF truthy(get(data.snapshots, version))
    THEN << <<":">> \o recordPrefix(version)
             \o escapeString(data.snapshots[version]) >>
    ELSE IF truthy(get(data.deltas, version))
    THEN << recordPrefix(version) \o escapeString(data.deltas[version]) >>
    ELSE <<>>

RECURSIVE serializeLines(_, _)
serializeLines(data, versions) ==
    IF Len(versions) = 0 THEN <<>>
    ELSE serializeLine(data, versions[1]) \o serializeLines(data, Tail(versions))

serializeStorage(data) == join(serializeLines(data, data.versions))

\* this.compressionProvider, the field the constructor sets: Undefined
\* without a provider, else the provider.
VARIABLE compressionProvider

\* A provider of the CompressionProvider interface.
Provider == <<"provider">>

RECURSIVE reverse(_)
reverse(s) == IF s = <<>> THEN <<>> ELSE Append(reverse(Tail(s)), s[1])

\* The provider's functions: compress marks the data and turns the
\* characters round; decompress undoes it and leaves unmarked data as it is,
\* so that decompress(compress(x)) = x.
providerCompress(data) == <<"z">> \o reverse(data)

providerDecompress(data) ==
    IF startsWith(data, "z") THEN reverse(Tail(data)) ELSE data

\* A decompress that hands the data on as it is.
decompressSkipped(data) == data

\* Without a compression provider both are the identity.
compress(data) ==
    IF compressionProvider = Undefined THEN data ELSE providerCompress(data)

decompress(data) ==
    IF compressionProvider = Undefined THEN data ELSE providerDecompress(data)

\* ------------------------------------------------------------------------
\* Version resolver
\* ------------------------------------------------------------------------

\* The loop that applies the plain deltas of versions[from..to] (1-based) in
\* order; deltas that contain '=' are passed over.
RECURSIVE replayDeltas(_, _, _, _)

\* One iteration of the loop, for the delta d of versions[from].
replayDelta(parsedData, from, to, currentText, d) ==
    replayDeltas(parsedData, from + 1, to,
                 IF truthy(d) /\ ~includes(d, "=")
                 THEN applyDiff(currentText, decodeDiff(d))
                 ELSE currentText)

replayDeltas(parsedData, from, to, currentText) ==
    IF from > to THEN currentText
    ELSE replayDelta(parsedData, from, to, currentText,
                     get(parsedData.deltas, parsedData.versions[from]))

\* The greatest of a set of indices; -1 when there is none.
lastIndex(hits) ==
    IF hits = {} THEN -1 ELSE CHOOSE i \in hits : \A j \in hits : j <= i

\* The index of the nearest snapshot at or before versionIndex.
nearestSnapshot(parsedData, versionIndex) ==
    lastIndex({i \in 0..versionIndex :
                  truthy(get(parsedData.snapshots, parsedData.versions[i + 1]))})

\* The replay from the snapshot at baseIndex, or from '' when there is none.
replayFrom(parsedData, baseIndex, versionIndex) ==
    replayDeltas(parsedData, baseIndex + 2, versionIndex + 1,
                 IF baseIndex = -1 THEN <<>>
                 ELSE parsedData.snapshots[parsedData.versions[baseIndex + 1]])

\* getVersionText on the parsed storage (every nested call parses the same
\* string again), with the number of nested calls the stack still allows: a
\* call made with none left throws RangeError, which every caller passes on.
RECURSIVE resolveText(_, _, _)

\* A hybrid reference: the operations applied to the referenced text, or to
\* '' when that is null.
applyToReferenced(baseText, diffOperations) ==
    IF baseText = RangeError THEN RangeError
    ELSE applyDiff(orEmpty(baseText), decodeDiff(diffOperations))

\* A payload that starts with '=': colonIndex is referenceData.indexOf(':', 1).
resolveReference(parsedData, referenceData, colonIndex, depth) ==
    IF colonIndex # -1
    THEN applyToReferenced(
             resolveText(parsedData, substring(referenceData, 1, colonIndex),
                         depth - 1),
             substringFrom(referenceData, colonIndex + 1))
    ELSE resolveText(parsedData, substringFrom(referenceData, 1), depth - 1)

\* A version of the storage, with its snapshot and its delta.
resolveRecord(parsedData, version, depth, snapshot, referenceData) ==
    IF truthy(snapshot) THEN snapshot
    ELSE IF truthy(referenceData) /\ includes(referenceData, "=")
            /\ indexOf(referenceData, "=", 0) = 0
    THEN resolveReference(parsedData, referenceData,
                          indexOf(referenceData, ":", 1), depth)
    ELSE replayFrom(parsedData,
                    nearestSnapshot(parsedData,
                                    arrayIndexOf(parsedData.versions, version)),
                    arrayIndexOf(parsedData.versions, version))

resolveText(parsedData, version, depth) ==
    IF depth = 0 THEN RangeError
    ELSE IF ~arrayIncludes(parsedData.versions, version) THEN Null
    ELSE resolveRecord(parsedData, version, depth,
                       get(parsedData.snapshots, version),
                       get(parsedData.deltas, version))

\* A chain of references that visits no record twice makes at most one call
\* per record and one for a name that is absent; a longer one is cyclic and
\* never ends, so the call stack overflows.
StackDepth(parsedData) == Len(parsedData.versions) + 2

\* getVersionText once the storage is parsed.
resolveParsed(parsedData, version) ==
    resolveText(parsedData, version, StackDepth(parsedData))

getVersionText(decompressedStorage, version) ==
    resolveParsed(parseStorage(decompressedStorage), version)

\* getVersionText of each of the versions, in order.
RECURSIVE resolveEach(_, _)
resolveEach(parsedData, versions) ==
    IF Len(versions) = 0 THEN <<>>
    ELSE <<resolveParsed(parsedData, versions[1])>>
           \o resolveEach(parsedData, Tail(versions))

getVersionTexts(decompressedStorage, versions) ==
    resolveEach(parseStorage(decompressedStorage), versions)

\* ------------------------------------------------------------------------
\* Version names
\* ------------------------------------------------------------------------

\* The printable ASCII characters in code order, from code 32 on (the two
\* quote characters, which no text of the model holds, are spelled out).
Ascii ==
    << " ", "!", "quote", "#", "$", "%", "&", "'", "(", ")", "*", "+", ",", "-",
       ".", "/", "0", "1", "2", "3", "4", "5", "6", "7", "8", "9", ":", ";",
       "<", "=", ">", "?", "@", "A", "B", "C", "D", "E", "F", "G", "H", "I",
       "J", "K", "L", "M", "N", "O", "P", "Q", "R", "S", "T", "U", "V", "W",
       "X", "Y", "Z", "[", "\\", "]", "^", "_", "backquote", "a", "b", "c", "d", "e",
       "f", "g", "h", "i", "j", "k", "l", "m", "n", "o", "p", "q", "r", "s",
       "t", "u", "v", "w", "x", "y", "z", "{", "|", "}", "~" >>

\* text.charCodeAt(i) for the character c = text[i].
charCodeAt(c) ==
    CASE c = TAB -> 9
      [] c = NL -> 10
      [] c = CR -> 13
      [] OTHER -> (CHOOSE i \in 1..Len(Ascii) : Ascii[i] = c) + 31

\* A 32-bit integer is kept as its two 16-bit halves [hi, lo] (two's
\* complement), so that no intermediate value leaves the range of TLC's integers.
Half == 65536

\* The 32-bit integer of the sum hi * 2^16 + lo, where hi and lo are any
\* integers (hash & hash, and the wrap of hash << 5).
wrap32(hi, lo) == [hi |-> (hi + (lo \div Half)) % Half, lo |-> lo % Half]

\* hash << 5
shiftLeft5(hash) == wrap32(hash.hi * 32, hash.lo * 32)

\* (shifted - hash) + char, then hash & hash.
minusHashPlusChar(shifted, hash, char) ==
    wrap32(shifted.hi - hash.hi, shifted.lo - hash.lo + char)

\* A hash that is left as it is, whatever its sign.
signAsIs(hash) == hash

\* ((hash << 5) - hash) + char, then hash & hash.
hashStep(hash, char) == minusHashPlusChar(shiftLeft5(hash), hash, char)

RECURSIVE hashLoop(_, _)
hashLoop(text, hash) ==
    IF Len(text) = 0 THEN hash
    ELSE hashLoop(Tail(text), hashStep(hash, charCodeAt(text[1])))

\* Math.abs of the signed 32-bit integer, as an unsigned [hi, lo].
abs32(hash) ==
    IF hash.hi < Half \div 2 THEN hash
    ELSE IF hash.lo = 0 THEN [hi |-> Half - hash.hi, lo |-> 0]
    ELSE [hi |-> Half - 1 - hash.hi, lo |-> Half - hash.lo]

Base36Digits ==
    << "0", "1", "2", "3", "4", "5", "6", "7", "8", "9", "a", "b", "c", "d",
       "e", "f", "g", "h", "i", "j", "k", "l", "m", "n", "o", "p", "q", "r",
       "s", "t", "u", "v", "w", "x", "y", "z" >>

\* n.toString(36) for an unsigned [hi, lo], by long division.
RECURSIVE toString36(_)

\* The digits of the quotient [hi, mid \div 36], then the digit mid % 36.
quotientThenDigit(hi, mid) ==
    IF hi = 0 /\ mid \div 36 = 0 THEN <<Base36Digits[(mid % 36) + 1]>>
    ELSE toString36([hi |-> hi, lo |-> mid \div 36])
           \o <<Base36Digits[(mid % 36) + 1]>>

toString36(n) == quotientThenDigit(n.hi \div 36, (n.hi % 36) * Half + n.lo)

generateHash(text) == toString36(abs32(hashLoop(text, [hi |-> 0, lo |-> 0])))

\* The loop that appends '#' while the candidate is taken.
RECURSIVE appendHashes(_, _)
appendHashes(existingVersions, candidate) ==
    IF arrayIncludes(existingVersions, candidate)
    THEN appendHashes(existingVersions, candidate \o <<"#">>)
    ELSE candidate

\* The proposed name taken as it is, whether or not it is in use.
proposedVersionAsIs(existingVersions, proposedVersion) == proposedVersion

resolveVersionName(existingVersions, proposedVersion) ==
    IF ~arrayIncludes(existingVersions, proposedVersion) THEN proposedVersion
    ELSE appendHashes(existingVersions, proposedVersion \o <<"#">>)

\* The name commit gives the new version: the given name, or the hash of the
\* text when none (or the empty name) is given, made unique.
versionNameFor(existingVersions, text, version) ==
    IF truthy(version)
    THEN resolveVersionName(existingVersions, version)
    ELSE resolveVersionName(existingVersions, generateHash(text))

\* ------------------------------------------------------------------------
\* Version graph mutator
\* ------------------------------------------------------------------------

\* What an operation yields when it throws instead of returning a storage.
Thrown == <<"Error">>

\* The length of `${versionName.length}:${versionName}:${escaped content}`.
serializedLength(versionName, content) ==
    Len(numberToString(Len(versionName)) \o <<":">> \o versionName \o <<":">>
        \o escapeString(content))

option(versionName, content) ==
    [content |-> content, length |-> serializedLength(versionName, content)]

\* The options of findBestDiffOption in the order they are pushed: the diff
\* against versions[n - 1] (the predecessor; versions[n] is the new version),
\* then the hybrid references to versions[1 .. n - 2]; texts[i] is the text
\* of versions[i].
plainOption(baseText, text, versionName) ==
    option(versionName, encodeDiff(calculateDiff(orEmpty(baseText), text)))

hybridOption(baseVersion, baseText, text, versionName) ==
    option(versionName,
           <<"=">> \o baseVersion \o <<":">>
               \o encodeDiff(calculateDiff(orEmpty(baseText), text)))

diffOptions(versions, texts, text, versionName) ==
    <<plainOption(texts[Len(versions) - 1], text, versionName)>>
        \o [i \in 1..(Len(versions) - 2) |->
              hybridOption(versions[i], texts[i], text, versionName)]

\* A choice that takes the option pushed first, whatever its length.
firstOption(options) == options[1]

\* options.sort((a, b) => a.length - b.length)[0]: the sort is stable, so
\* the first of the shortest options.
shortestOption(options) ==
    options[CHOOSE i \in 1..Len(options) :
               /\ \A j \in 1..Len(options) : options[i].length <= options[j].length
               /\ \A j \in 1..(i - 1) : options[j].length > options[i].length]

\* The content of the best option, or Thrown when a version's text cannot
\* be resolved.
bestContent(versions, texts, text, versionName) ==
    IF \E i \in 1..Len(texts) : texts[i] = RangeError THEN Thrown
    ELSE shortestOption(diffOptions(versions, texts, text, versionName)).content

\* parsedData.versions already ends with the new version; the storage does
\* not hold it yet.
findBestDiffOption(parsedData, text, versionName, decompressedStorage) ==
    bestContent(parsedData.versions,
                getVersionTexts(decompressedStorage,
                                SubSeq(parsedData.versions, 1,
                                       Len(parsedData.versions) - 1)),
                text, versionName)

\* parsedData with the reference pushed.
withReference(parsedData, referencedVersion, newVersionName) ==
    [parsedData EXCEPT !.versions = Append(@, newVersionName),
                       !.deltas = put(@, newVersionName,
                                      <<"=">> \o referencedVersion)]

addVersionReference(storage, referencedVersion, newVersionName) ==
    compress(serializeStorage(
        withReference(parseStorage(decompress(storage)), referencedVersion,
                      newVersionName)))

\* The new version stored as the best delta.
storeDelta(parsedData, versionName, bestStorage) ==
    IF bestStorage = Thrown THEN Thrown
    ELSE compress(serializeStorage(
             [parsedData EXCEPT !.deltas = put(@, versionName, bestStorage)]))

\* A storing of the new version that keeps the full text whatever its position.
storeVersionAsSnapshot(parsedData, text, versionName, decompressed) ==
    compress(serializeStorage(
        [parsedData EXCEPT !.snapshots = put(@, versionName, text)]))

\* The new version stored once it is pushed: the first version as a
\* snapshot, a later one as a delta.
storeVersion(parsedData, text, versionName, decompressed) ==
    IF Len(parsedData.versions) = 1
    THEN compress(serializeStorage(
             [parsedData EXCEPT !.snapshots = put(@, versionName, text)]))
    ELSE storeDelta(parsedData, versionName,
                    findBestDiffOption(parsedData, text, versionName,
                                       decompressed))

\* commit after the loop over the existing versions, which ends early at the
\* index stop (-1: it does not), the first version whose text is the new text
\* or whose resolution throws; texts[i] is the text of versions[i].
commitAfterLoop(storage, decompressed, parsedData, text, versionName, texts, stop) ==
    IF stop # -1
    THEN IF texts[stop + 1] = RangeError THEN Thrown
         ELSE addVersionReference(storage, parsedData.versions[stop + 1],
                                  versionName)
    ELSE storeVersion([parsedData EXCEPT !.versions = Append(@, versionName)],
                      text, versionName, decompressed)

\* A loop that does not end at the first version whose text is the new text
\* but goes on to the last one.
commitLoopToLast(storage, decompressed, parsedData, text, versionName, texts) ==
    commitAfterLoop(storage, decompressed, parsedData, text, versionName, texts,
        lastIndex({i \in 0..(Len(texts) - 1) :
                      texts[i + 1] = text \/ texts[i + 1] = RangeError}))

commitLoop(storage, decompressed, parsedData, text, versionName, texts) ==
    commitAfterLoop(storage, decompressed, parsedData, text, versionName, texts,
        firstIndex({i \in 0..(Len(texts) - 1) :
                       texts[i + 1] = text \/ texts[i + 1] = RangeError}))

commitParsed(storage, decompressed, parsedData, text, version) ==
    commitLoop(storage, decompressed, parsedData, text,
               versionNameFor(parsedData.versions, text, version),
               resolveEach(parsedData, parsedData.versions))

\* commit(storage, text, version): the new storage, or Thrown.
commit(storage, text, version) ==
    commitParsed(storage, decompress(storage),
                 parseStorage(decompress(storage)), text, version)

show(storage, version) == getVersionText(decompress(storage), version)

logParsed(parsedData) ==
    [i \in 1..Len(parsedData.versions) |->
       [version |-> parsedData.versions[i],
        isSnapshot |-> truthy(get(parsedData.snapshots,
                                  parsedData.versions[i]))]]

\* log(storage): one entry per parsed version.
log(storage) == logParsed(parseStorage(decompress(storage)))

\* The entries of obj for the versions whose value is truthy.
keep(obj, versions) ==
    [v \in {versions[i] : i \in 1..Len(versions)} \cap
           {k \in DOMAIN obj : truthy(obj[k])} |-> obj[v]]

\* The kept versions with their snapshots and deltas.
keepVersions(parsedData, versions) ==
    [versions |-> versions,
     snapshots |-> keep(parsedData.snapshots, versions),
     deltas |-> keep(parsedData.deltas, versions)]

resetParsed(parsedData, targetIndex) ==
    IF targetIndex = -1 THEN Thrown
    ELSE compress(serializeStorage(
             keepVersions(parsedData,
                          SubSeq(parsedData.versions, 1, targetIndex + 1))))

resetTo(parsedData, targetVersion) ==
    resetParsed(parsedData, arrayIndexOf(parsedData.versions, targetVersion))

\* reset(storage, targetVersion): the new storage, or Thrown.
reset(storage, targetVersion) ==
    resetTo(parseStorage(decompress(storage)), targetVersion)

\* The snapshots of the new storage: the target's text, then the snapshots
\* of the later versions.
squashedSnapshots(laterSnapshots, targetVersion, targetText) ==
    [v \in (DOMAIN laterSnapshots) \cup {targetVersion} |->
        IF v \in DOMAIN laterSnapshots THEN laterSnapshots[v] ELSE targetText]

\* The versions from the target on; later are those after the target, which
\* keep their snapshot, or else their delta.
squashedData(parsedData, targetVersion, targetIndex, targetText, later) ==
    [versions |-> SubSeq(parsedData.versions, targetIndex + 1,
                         Len(parsedData.versions)),
     snapshots |-> squashedSnapshots(keep(parsedData.snapshots, later),
                                     targetVersion, targetText),
     deltas |-> keep(parsedData.deltas,
                     SelectSeq(later,
                         LAMBDA v : ~truthy(get(parsedData.snapshots, v))))]

squashParsed(parsedData, targetVersion, targetIndex, targetText) ==
    IF targetIndex = -1 THEN Thrown
    ELSE IF targetText = Null \/ targetText = RangeError THEN Thrown
    ELSE compress(serializeStorage(
             squashedData(parsedData, targetVersion, targetIndex, targetText,
                          SubSeq(parsedData.versions, targetIndex + 2,
                                 Len(parsedData.versions)))))

squashTo(decompressed, parsedData, targetVersion) ==
    squashParsed(parsedData, targetVersion,
                 arrayIndexOf(parsedData.versions, targetVersion),
                 getVersionText(decompressed, targetVersion))

\* squash(storage, targetVersion): the new storage, or Thrown.
squash(storage, targetVersion) ==
    squashTo(decompress(storage), parseStorage(decompress(storage)),
             targetVersion)

\* getVersionText(...) || '', unless the resolution throws.
textOrEmpty(text) == IF text = RangeError THEN RangeError ELSE orEmpty(text)

latestParsed(decompressed, parsedData) ==
    IF Len(parsedData.versions) = 0 THEN <<>>
    ELSE textOrEmpty(getVersionText(decompressed,
                         parsedData.versions[Len(parsedData.versions)]))

latest(storage) ==
    latestParsed(decompress(storage), parseStorage(decompress(storage)))

\* ------------------------------------------------------------------------
\* The storage value under a sequence of commit, reset and squash calls
\* ------------------------------------------------------------------------

\* storage: the storage string the caller holds; calls: the number of calls
\* made so far that returned a storage.  In a step, storage is the argument
\* of the call and storage' what the call returned; a call that throws
\* leaves the caller with the storage it had.
\*
\* input, output, applied: a run of one of the codecs on its own, outside
\* any call of the public operations: the value the run starts from, the
\* value the last codec function returned, and the name of that function
\* ("none" before the first).
VARIABLES storage, calls, input, output, applied

vars == <<storage, calls, input, output, applied, compressionProvider>>

\* new TextVersion(): no compression provider.
noProvider == compressionProvider = Undefined

\* No codec runs on its own.
noCodecRun ==
    /\ input = <<>>
    /\ output = <<>>
    /\ applied = "none"

\* The most records a storage of the model holds.
MaxVersions == 3

\* The most calls of a behaviour that return a storage.
MaxCalls == 5

\* The texts committed: the empty text, two texts that share a suffix, and
\* a text with no character of the others.
Texts == { <<>>, <<"a", "b", "c">>, <<"b", "c">>, <<"x">> }

\* The arguments of commit, <<text, version>>: every text under the name
\* "v1", which the storage makes unique, and one text with no name, which
\* is named by its hash.
CommitArgs == (Texts \X { <<"v", "1">> }) \cup { << <<"x">>, Undefined >> }

\* A name no commit of the model gives.
AbsentVersion == <<"v", "0">>

versionsOf(s) == parseStorage(decompress(s)).versions

\* The name commit(s, text, version) gives the new version.
assignedName(s, text, version) == versionNameFor(versionsOf(s), text, version)

\* The targets reset and squash are called with: every version of the
\* storage and a name that is absent.
Targets(s) == {versionsOf(s)[i] : i \in 1..Len(versionsOf(s))} \cup {AbsentVersion}

\* The caller's storage after a call: the result, or the old storage when
\* the call threw.
returned(result) ==
    /\ calls < MaxCalls
    /\ storage' = IF result = Thrown THEN storage ELSE result
    /\ calls' = IF result = Thrown THEN calls ELSE calls + 1
    /\ UNCHANGED <<input, output, applied, compressionProvider>>

Init ==
    /\ storage = <<>>
    /\ calls = 0
    /\ noProvider
    /\ noCodecRun

\* storage = tv.commit(storage, text, version)
Commit ==
    \E args \in CommitArgs :
        /\ Len(versionsOf(storage)) < MaxVersions
        /\ returned(commit(storage, args[1], args[2]))

\* storage = tv.reset(storage, target)
Reset ==
    \E target \in Targets(storage) : returned(reset(storage, target))

\* storage = tv.squash(storage, target)
Squash ==
    \E target \in Targets(storage) : returned(squash(storage, target))

Next == Commit \/ Reset \/ Squash

Spec == Init /\ [][Next]_vars

\* The storages built from the empty storage by commit and reset only.
AppendNext == Commit \/ Reset

AppendSpec == Init /\ [][AppendNext]_vars

\* ------------------------------------------------------------------------
\* The escape codec on its own: a string is escaped, then unescaped
\* ------------------------------------------------------------------------

\* The longest string escaped.
MaxLen == 3

\* The characters of the strings escaped: the four characters escapeString
\* replaces and the letters its replacements end with.
EscapeChars == { BS, NL, CR, TAB, "n", "r", "t" }

EscapeInputs == UNION { [1..n -> EscapeChars] : n \in 0..MaxLen }

EscapeInit ==
    /\ storage = <<>>
    /\ calls = 0
    /\ noProvider
    /\ input \in EscapeInputs
    /\ output = input
    /\ applied = "none"

\* output = this.escapeString(input)
Escape ==
    /\ applied = "none"
    /\ output' = escapeString(input)
    /\ applied' = "escapeString"
    /\ UNCHANGED <<storage, calls, input, compressionProvider>>

\* output = this.unescapeString(output)
Unescape ==
    /\ applied = "escapeString"
    /\ output' = unescapeString(output)
    /\ applied' = "unescapeString"
    /\ UNCHANGED <<storage, calls, input, compressionProvider>>

EscapeNext == Escape \/ Unescape

EscapeSpec == EscapeInit /\ [][EscapeNext]_vars

\* ------------------------------------------------------------------------
\* The record codec on its own: records are serialized, then parsed
\* ------------------------------------------------------------------------

\* The most records serialized.
MaxRecords == 2

\* The names of the records: plain ones and one that holds the separator
\* and a digit.
RecordNames == { <<"a">>, <<"b">>, <<"1", ":">> }

\* The texts of the first record, the empty text among them.
SnapshotTexts == { <<>>, <<"x">>, <<"a", ":", "b">>, <<"=", "y">> }

\* The payloads of the later records: encoded edits, a reference and a
\* reference with edits.
DeltaPayloads ==
    { <<"R", "1">>, <<"D", "1", "I", "1", ":", "z">>, <<"=", "a">>,
      <<"=", "a", ":", "D", "1">> }

\* The records that hold one snapshot.
firstRecord(versionName, text) ==
    [versions |-> <<versionName>>,
     snapshots |-> put(emptyObject, versionName, text),
     deltas |-> emptyObject]

\* The records data followed by a record that is no snapshot.
laterRecord(data, versionName, payload) ==
    [data EXCEPT !.versions = Append(@, versionName),
                 !.deltas = put(@, versionName, payload)]

\* The well-formed lists of n records: the names differ, the first record
\* is a snapshot and the later ones are not.
RECURSIVE RecordLists(_)
RecordLists(n) ==
    IF n = 1
    THEN { firstRecord(c[1], c[2]) : c \in RecordNames \X SnapshotTexts }
    ELSE { laterRecord(c[1], c[2], c[3]) :
             c \in { x \in RecordLists(n - 1) \X RecordNames \X DeltaPayloads :
                       ~arrayIncludes(x[1].versions, x[2]) } }

RecordInputs == UNION { RecordLists(n) : n \in 1..MaxRecords }

RecordInit ==
    /\ storage = <<>>
    /\ calls = 0
    /\ noProvider
    /\ input \in RecordInputs
    /\ output = emptyData
    /\ applied = "none"

\* storage = this.serializeStorage(input)
Serialize ==
    /\ applied = "none"
    /\ storage' = serializeStorage(input)
    /\ applied' = "serializeStorage"
    /\ UNCHANGED <<calls, input, output, compressionProvider>>

\* output = this.parseStorage(storage)
Parse ==
    /\ applied = "serializeStorage"
    /\ output' = parseStorage(storage)
    /\ applied' = "parseStorage"
    /\ UNCHANGED <<storage, calls, input, compressionProvider>>

RecordNext == Serialize \/ Parse

RecordSpec == RecordInit /\ [][RecordNext]_vars

\* ------------------------------------------------------------------------
\* The diff codec on its own: a corrupt edit script is decoded, and shown
\* as the payload of a version
\* ------------------------------------------------------------------------

\* Well-formed encoded operations.
ValidScripts == { <<>>, <<"R", "1">>, <<"D", "1">>, <<"I", "1", ":", "z">> }

\* Corrupt encoded operations: two unknown tags; an R and a D with no
\* length; an R whose length is no number; an I with no length, with a
\* length that is no number, with a length beyond the end of the script,
\* and with no ':' after the length.
CorruptOperations ==
    { <<"X", "1">>, <<"x">>, <<"R">>, <<"D">>, <<"R", "z">>,
      <<"I", ":", "z">>, <<"I", "z", ":", "q">>, <<"I", "9", ":", "z">>,
      <<"I", "1">> }

\* The scripts with one corrupt operation, at the start, in the middle or
\* at the end.
CorruptScripts ==
    { c[1] \o c[2] \o c[3] :
        c \in ValidScripts \X CorruptOperations \X { <<>>, <<"D", "1">> } }

\* The name of the version that holds the script.
CorruptVersion == <<"v", "2">>

\* A storage whose second version has the script as its payload.
storageWith(script) ==
    serializeStorage(laterRecord(firstRecord(<<"v", "1">>, <<"a", "b", "c">>),
                                 CorruptVersion, script))

DecodeInit ==
    /\ input \in CorruptScripts
    /\ storage = storageWith(input)
    /\ calls = 0
    /\ noProvider
    /\ output = <<>>
    /\ applied = "none"

\* output = this.decodeDiff(input): the operations returned; decodeDiff has
\* no statement that throws.
Decode ==
    /\ applied = "none"
    /\ output' = [operations |-> decodeDiff(input)]
    /\ applied' = "decodeDiff"
    /\ UNCHANGED <<storage, calls, input, compressionProvider>>

\* output = tv.show(storage, version)
Show ==
    /\ applied = "none"
    /\ output' = show(storage, CorruptVersion)
    /\ applied' = "show"
    /\ UNCHANGED <<storage, calls, input, compressionProvider>>

DecodeNext == Decode \/ Show

DecodeSpec == DecodeInit /\ [][DecodeNext]_vars

\* ------------------------------------------------------------------------
\* The storage under an engine with a compression provider, which a
\* provider-less engine takes over
\* ------------------------------------------------------------------------

\* The mutators, which return a storage or throw.
Mutators == { "commit", "reset", "squash" }

\* tv = new TextVersion(compressionProvider); let storage = ''
CompressionInit ==
    /\ storage = <<>>
    /\ calls = 0
    /\ compressionProvider = Provider
    /\ noCodecRun

\* The engine with the provider has made the call operation(storage, args)
\* and returned result; the provider-less engine is handed the decompressed
\* storage.
called(operation, args, result) ==
    /\ compressionProvider = Provider
    /\ applied = "none"
    /\ input' = [storage |-> storage, args |-> args]
    /\ output' = [withProvider |-> result]
    /\ applied' = operation
    /\ compressionProvider' = Undefined
    /\ storage' = providerDecompress(storage)
    /\ UNCHANGED calls

\* tv.commit(storage, text, version)
CommitCompressed ==
    \E args \in CommitArgs :
        /\ calls < MaxCalls
        /\ Len(versionsOf(storage)) < MaxVersions
        /\ called("commit", args, commit(storage, args[1], args[2]))

\* tv.reset(storage, target)
ResetCompressed ==
    \E target \in Targets(storage) :
        /\ calls < MaxCalls
        /\ called("reset", target, reset(storage, target))

\* tv.squash(storage, target)
SquashCompressed ==
    \E target \in Targets(storage) :
        /\ calls < MaxCalls
        /\ called("squash", target, squash(storage, target))

\* tv.show(storage, version)
ShowCompressed ==
    \E version \in Targets(storage) :
        called("show", version, show(storage, version))

\* tv.log(storage)
LogCompressed ==
    \E args \in { <<>> } : called("log", args, log(storage))

\* tv.latest(storage)
LatestCompressed ==
    \E args \in { <<>> } : called("latest", args, latest(storage))

\* What the provider-less engine returns for the same call on the
\* decompressed storage.
providerLessResult(operation, s, args) ==
    CASE operation = "commit" -> commit(s, args[1], args[2])
      [] operation = "reset" -> reset(s, args)
      [] operation = "squash" -> squash(s, args)
      [] operation = "show" -> show(s, args)
      [] operation = "log" -> log(s)
      [] operation = "latest" -> latest(s)

\* plain = new TextVersion(); the same call on the decompressed storage.
ProviderLessCall ==
    /\ compressionProvider = Undefined
    /\ applied \in Mutators \cup { "show", "log", "latest" }
    /\ "providerLess" \notin DOMAIN output
    /\ output' = [withProvider |-> output.withProvider,
                  providerLess |-> providerLessResult(applied, storage, input.args)]
    /\ UNCHANGED <<storage, calls, input, applied, compressionProvider>>

\* The storage a call leaves the caller with: what a mutator returned, else
\* the storage of the call.
storageAfter(operation, s, result) ==
    IF operation \in Mutators THEN (IF result = Thrown THEN s ELSE result)
    ELSE s

\* The caller goes on with the engine that has the provider.
Resume ==
    /\ compressionProvider = Undefined
    /\ "providerLess" \in DOMAIN output
    /\ storage' = storageAfter(applied, input.storage, output.withProvider)
    /\ calls' = IF storage' = input.storage THEN calls ELSE calls + 1
    /\ compressionProvider' = Provider
    /\ input' = <<>>
    /\ output' = <<>>
    /\ applied' = "none"

CompressionNext ==
    \/ CommitCompressed
    \/ ResetCompressed
    \/ SquashCompressed
    \/ ShowCompressed
    \/ LogCompressed
    \/ LatestCompressed
    \/ ProviderLessCall
    \/ Resume

CompressionSpec == CompressionInit /\ [][CompressionNext]_vars

\* ------------------------------------------------------------------------
\* The storage under commits whose names hold ':', '=' and digits
\* ------------------------------------------------------------------------

\* The names given: one with the separator, one with the reference mark and
\* one of digits.
SpecialNames == { <<"a", ":", "b">>, <<"a", "=", "b">>, <<"1", "2">> }

\* The texts committed under them: none is empty, two share a suffix.
NamedTexts == { <<"a", "b", "c">>, <<"b", "c">>, <<"x">> }

NamedCommitArgs == NamedTexts \X SpecialNames

\* storage = tv.commit(storage, text, version)
CommitNamed ==
    \E args \in NamedCommitArgs :
        /\ Len(versionsOf(storage)) < MaxVersions
        /\ returned(commit(storage, args[1], args[2]))

NamesNext == CommitNamed

NamesSpec == Init /\ [][NamesNext]_vars

\* ------------------------------------------------------------------------
\* The storage under commits without a name
\* ------------------------------------------------------------------------

\* The texts committed: two texts of one hash, a short text, a text whose
\* hash wraps to a negative integer and one whose hash wraps further to a
\* positive one; no two of them share a character.
HashTexts ==
    { <<"A", "a">>, <<"B", "B">>, <<"x">>,
      <<"c", "c", "c", "c", "c", "c">>,
      <<"z", "z", "z", "z", "z", "z", "z">> }

\* storage = tv.commit(storage, text)
CommitUnnamed ==
    \E text \in HashTexts :
        /\ Len(versionsOf(storage)) < MaxVersions
        /\ returned(commit(storage, text, Undefined))

HashNext == CommitUnnamed

HashSpec == Init /\ [][HashNext]_vars

\* ------------------------------------------------------------------------
\* The storage under commits of texts with backslashes and line breaks,
\* and resets
\* ------------------------------------------------------------------------

\* The texts committed: a backslash alone, before 'n' and before 't', a
\* text with a line break, and a plain one.
EscapedTexts ==
    { <<BS>>, <<BS, "n">>, <<BS, "t">>, <<"a", NL, "b">>, <<"x">> }

\* storage = tv.commit(storage, text, 'v1')
CommitEscaped ==
    \E text \in EscapedTexts :
        /\ Len(versionsOf(storage)) < MaxVersions
        /\ returned(commit(storage, text, <<"v", "1">>))

ResetNext == CommitEscaped \/ Reset

ResetSpec == Init /\ [][ResetNext]_vars

\* ------------------------------------------------------------------------
\* The diff codec on its own: an edit script is encoded and decoded, and
\* both scripts are applied to a base text
\* ------------------------------------------------------------------------

\* The most operations of a script.
MaxOps == 3

\* The operations of the scripts: none is empty, and the inserted texts hold
\* a digit, the separator and the operation tags.
ScriptOperations ==
    { Retain(1), Retain(2), Delete(1), Insert(<<"1">>), Insert(<<":">>),
      Insert(<<"R", "2">>), Insert(<<"D", "I">>) }

Scripts == UNION { [1..n -> ScriptOperations] : n \in 0..MaxOps }

\* The base texts: the empty text, and texts shorter and longer than what
\* a script consumes.
BaseTexts == { <<>>, <<"a", "b">>, <<"a", "b", "c", "d", "e">> }

ScriptInit ==
    /\ storage = <<>>
    /\ calls = 0
    /\ noProvider
    /\ input \in [text : BaseTexts, operations : Scripts]
    /\ output = <<>>
    /\ applied = "none"

\* encoded = this.encodeDiff(operations)
EncodeScript ==
    /\ applied = "none"
    /\ output' = [encoded |-> encodeDiff(input.operations)]
    /\ applied' = "encodeDiff"
    /\ UNCHANGED <<storage, calls, input, compressionProvider>>

\* decoded = this.decodeDiff(encoded)
DecodeScript ==
    /\ applied = "encodeDiff"
    /\ output' = [encoded |-> output.encoded,
                  decoded |-> decodeDiff(output.encoded)]
    /\ applied' = "decodeDiff"
    /\ UNCHANGED <<storage, calls, input, compressionProvider>>

\* this.applyDiff(text, operations) and this.applyDiff(text, decoded)
ApplyScripts ==
    /\ applied = "decodeDiff"
    /\ output' = [encoded |-> output.encoded,
                  decoded |-> output.decoded,
                  result |-> applyDiff(input.text, input.operations),
                  resultOfDecoded |-> applyDiff(input.text, output.decoded)]
    /\ applied' = "applyDiff"
    /\ UNCHANGED <<storage, calls, input, compressionProvider>>

ScriptNext == EncodeScript \/ DecodeScript \/ ApplyScripts

ScriptSpec == ScriptInit /\ [][ScriptNext]_vars

\* ------------------------------------------------------------------------
\* The parser on its own: a storage of well-formed and malformed lines
\* ------------------------------------------------------------------------

\* The most lines of a storage.
MaxLines == 3

\* A snapshot, a delta and a reference line, a blank line, and lines whose
\* length prefix is no number, only starts with digits, or is missing, and
\* lines whose name is not followed by the separator.
StorageLines ==
    { <<":", "2", ":", "v", "1", ":", "a", "b">>,
      <<"2", ":", "v", "2", ":", "R", "1">>,
      <<"2", ":", "v", "3", ":", "=", "v", "1">>,
      <<" ">>,
      <<"x", ":", "v", "4", ":", "a">>,
      <<":", "x", ":", "v", "5", ":", "a">>,
      <<"2", "x", ":", "v", "6", ":", "a">>,
      <<"2", ":", "v", "7", "a", ":", "b">>,
      <<"v", "8">> }

LineLists == UNION { [1..n -> StorageLines] : n \in 0..MaxLines }

LinesInit ==
    /\ input \in LineLists
    /\ storage = join(input)
    /\ calls = 0
    /\ noProvider
    /\ output = emptyData
    /\ applied = "none"

\* output = this.parseStorage(storage)
ParseLines ==
    /\ applied = "none"
    /\ output' = parseStorage(storage)
    /\ applied' = "parseStorage"
    /\ UNCHANGED <<storage, calls, input, compressionProvider>>

LinesNext == ParseLines

LinesSpec == LinesInit /\ [][LinesNext]_vars

\* ------------------------------------------------------------------------
\* The properties of the storage
\* ------------------------------------------------------------------------

\* What show yields when it returns a text.
isText(result) == result \notin {Null, Undefined, RangeError, Thrown}

\* The payload of the record named version, and the kind of the record as
\* the resolver tells it: a stored full text, else a payload that starts
\* with '=' (with or without a ':' after the target), else encoded edits.
payloadOf(s, version) == get(parseStorage(decompress(s)).deltas, version)

isSnapshotRecord(s, version) ==
    truthy(get(parseStorage(decompress(s)).snapshots, version))

recordKind(s, version) ==
    IF isSnapshotRecord(s, version) THEN "Snapshot"
    ELSE IF ~startsWith(payloadOf(s, version), "=") THEN "Delta"
    ELSE IF indexOf(payloadOf(s, version), ":", 1) = -1 THEN "Reference"
    ELSE "HybridReference"

\* The target a Reference or HybridReference payload names.
referenceTarget(payload) ==
    IF indexOf(payload, ":", 1) = -1 THEN substringFrom(payload, 1)
    ELSE substring(payload, 1, indexOf(payload, ":", 1))

\* The 1-based positions at which name stands in the storage.
positionsOf(s, name) ==
    {i \in 1..Len(versionsOf(s)) : versionsOf(s)[i] = name}

\* The commits of the model from the current storage that return.
Commits ==
    {args \in CommitArgs : commit(storage, args[1], args[2]) # Thrown}

\* The names of the current storage.
Names == {versionsOf(storage)[i] : i \in 1..Len(versionsOf(storage))}

\* C1 (resolve-after-commit): for every reachable storage and every text
\* and name committed to it, show of the returned storage under the name
\* commit assigned returns exactly the committed text.
C1_ResolveAfterCommit ==
    \A args \in Commits :
        show(commit(storage, args[1], args[2]),
             assignedName(storage, args[1], args[2])) = args[1]

\* Every Delta record of s that is not the first resolves to the text of
\* the record before it with the record's edits applied.
deltasResolveAgainstPredecessor(s) ==
    \A i \in 2..Len(versionsOf(s)) :
        recordKind(s, versionsOf(s)[i]) = "Delta" =>
            /\ isText(show(s, versionsOf(s)[i - 1]))
            /\ show(s, versionsOf(s)[i]) =
                   applyDiff(show(s, versionsOf(s)[i - 1]),
                             decodeDiff(payloadOf(s, versionsOf(s)[i])))

\* C2 (delta resolution): in every reachable storage, and in every
\* storage a commit to it returns, the text show returns for a Delta record
\* is the record's edits applied to the text show returns for the record
\* immediately before it, whatever the kind of that record.
C2_DeltaAgainstPredecessor ==
    /\ deltasResolveAgainstPredecessor(storage)
    /\ \A args \in Commits :
           deltasResolveAgainstPredecessor(commit(storage, args[1], args[2]))

\* The squashes of the current storage that return: <<target, result>>.
Squashes ==
    {<<target, squash(storage, target)>> : target \in Names}
        \ (Names \X {Thrown})

\* The 1-based position of the first record named name.
positionOf(s, name) == arrayIndexOf(versionsOf(s), name) + 1

\* C3 (squash keeps later versions readable): after squash(storage,
\* target) every version positioned after the target shows the text it
\* showed before the squash, whatever its kind.
C3_SquashKeepsLaterVersions ==
    \A sq \in Squashes :
        \A i \in (positionOf(storage, sq[1]) + 1)..Len(versionsOf(storage)) :
            /\ isText(show(sq[2], versionsOf(storage)[i]))
            /\ show(sq[2], versionsOf(storage)[i]) =
                   show(storage, versionsOf(storage)[i])

\* Every Reference and HybridReference record of s names a record that
\* stands before it in s.
referencesPointBack(s) ==
    \A i \in 1..Len(versionsOf(s)) :
        recordKind(s, versionsOf(s)[i]) \in {"Reference", "HybridReference"} =>
            \E j \in 1..(i - 1) :
                versionsOf(s)[j] = referenceTarget(payloadOf(s, versionsOf(s)[i]))

\* C4 (reference well-foundedness): in every reachable storage the target
\* of every Reference and HybridReference record exists in the storage at
\* a strictly lower position, so that following targets reaches a
\* Snapshot through a finite chain that visits no record twice.
C4_ReferencesWellFounded == referencesPointBack(storage)

\* log(s) from the record named target on, with the target a snapshot.
logFromAsSnapshot(s, target) ==
    [i \in 1..(Len(versionsOf(s)) - positionOf(s, target) + 1) |->
        IF i = 1 THEN [version |-> target, isSnapshot |-> TRUE]
        ELSE log(s)[positionOf(s, target) + i - 1]]

\* C5 (squash truncation and re-snapshot): for every name target of the
\* storage, log(squash(storage, target)) is log(storage) from the target
\* to the end with the target's entry a snapshot, show of the target is
\* unchanged (the empty text included), and every name that stood before
\* the target is absent.
C5_SquashTruncates ==
    \A sq \in Squashes :
        /\ log(sq[2]) = logFromAsSnapshot(storage, sq[1])
        /\ show(sq[2], sq[1]) = show(storage, sq[1])
        /\ \A i \in 1..(positionOf(storage, sq[1]) - 1) :
               show(sq[2], versionsOf(storage)[i]) = Null

\* The resets of the current storage that return: <<target, result>>.
Resets ==
    {<<target, reset(storage, target)>> : target \in Names}

\* C6 (reset truncation): for every name target of the storage,
\* log(reset(storage, target)) is log(storage) up to and including the
\* target, and every kept version shows the text it showed before.
C6_ResetTruncates ==
    \A rs \in Resets :
        /\ rs[2] # Thrown
        /\ log(rs[2]) = SubSeq(log(storage), 1, positionOf(storage, rs[1]))
        /\ \A i \in 1..positionOf(storage, rs[1]) :
               show(rs[2], versionsOf(storage)[i]) =
                   show(storage, versionsOf(storage)[i])

\* C7 (first record is a snapshot): in every non-empty reachable storage
\* the first record is a Snapshot.
C7_FirstRecordIsSnapshot ==
    Len(versionsOf(storage)) > 0 => log(storage)[1].isSnapshot

\* k '#' characters.
hashes(k) == [i \in 1..k |-> "#"]

\* The name commit starts from: the given name, or the hash of the text.
candidateName(text, version) ==
    IF truthy(version) THEN version ELSE generateHash(text)

\* name is candidate followed by the fewest '#' that make a name s lacks.
isFirstFreeName(s, candidate, name) ==
    \E k \in 0..Len(versionsOf(s)) :
        /\ name = candidate \o hashes(k)
        /\ positionsOf(s, name) = {}
        /\ \A j \in 0..(k - 1) : positionsOf(s, candidate \o hashes(j)) # {}

\* C8 (name deduplication): a commit assigns the candidate name followed
\* by the smallest number k >= 0 of '#' such that the result is not a name
\* of the storage, that is, the returned storage holds the names of the
\* storage followed by that name; so commits under "v1" to a storage with
\* no names, with the name "v1", and with the names "v1", "v1#", return the
\* names "v1", then "v1", "v1#", then "v1", "v1#", "v1##".
C8_NameDeduplication ==
    \A args \in Commits :
        LET result == commit(storage, args[1], args[2])
            name == assignedName(storage, args[1], args[2])
            underV1 == args[2] = <<"v", "1">>
        IN  /\ isFirstFreeName(storage, candidateName(args[1], args[2]), name)
            /\ versionsOf(result) = versionsOf(storage) \o <<name>>
            /\ (underV1 /\ versionsOf(storage) = <<>>)
                   => versionsOf(result) = << <<"v", "1">> >>
            /\ (underV1 /\ versionsOf(storage) = << <<"v", "1">> >>)
                   => versionsOf(result) = << <<"v", "1">>, <<"v", "1", "#">> >>
            /\ (underV1
                    /\ versionsOf(storage) = << <<"v", "1">>, <<"v", "1", "#">> >>)
                   => versionsOf(result) =
                          << <<"v", "1">>, <<"v", "1", "#">>, <<"v", "1", "#", "#">> >>

\* No two records of s have the same name.
namesAreUnique(s) ==
    LET versions == versionsOf(s)
    IN  \A i, j \in 1..Len(versions) : versions[i] = versions[j] => i = j

positionsWithText(s, text) ==
    {i \in 1..Len(versionsOf(s)) : show(s, versionsOf(s)[i]) = text}

\* The least of a non-empty set of positions.
lowest(positions) == CHOOSE i \in positions : \A j \in positions : i <= j

\* C10 (identical-content referencing): when the committed text is the
\* resolved text of an existing version, commit appends a pure Reference
\* to the lowest-position such version, log reports the new record as no
\* snapshot, and show of the new name returns the text show of the target
\* returns.
C10_IdenticalContentReference ==
    \A args \in CommitArgs :
        positionsWithText(storage, args[1]) # {} =>
            LET result == commit(storage, args[1], args[2])
                name == assignedName(storage, args[1], args[2])
                target == versionsOf(storage)[
                              lowest(positionsWithText(storage, args[1]))]
            IN  /\ result # Thrown
                /\ versionsOf(result) = versionsOf(storage) \o <<name>>
                /\ payloadOf(result, name) = <<"=">> \o target
                /\ recordKind(result, name) = "Reference"
                /\ log(result)[Len(log(result))] =
                       [version |-> name, isSnapshot |-> FALSE]
                /\ isText(show(result, name))
                /\ show(result, name) = show(result, target)

\* C11 (commit appends exactly one record): for every reachable storage and
\* every text and name committed to it, the log of the returned storage is
\* the log of the storage followed by one entry that carries the assigned
\* name and is a snapshot exactly when the log of the storage is empty.
C11_CommitAppendsOneRecord ==
    \A args \in Commits :
        log(commit(storage, args[1], args[2])) =
            log(storage) \o
                <<[version |-> assignedName(storage, args[1], args[2]),
                   isSnapshot |-> Len(log(storage)) = 0]>>

C13_EscapeRoundTrip ==
    /\ applied = "escapeString" => ~includes(output, NL)
    /\ applied = "unescapeString" => output = input

\* C14 (record round-trip): for every well-formed list of records (unique
\* names, the first record a snapshot of any text, the empty text included),
\* parsing the serialized records gives the same records in the same order
\* with the same kinds and payloads.
C14_RecordRoundTrip ==
    applied = "parseStorage" => output = input

\* The candidate encodings of text as the version after the versions of s,
\* in the order the claim gives: at 1 the edits from the text of the last
\* version, at i + 1 the reference to the i-th version with the edits from
\* its text, for every version but the last.
candidateAt(s, text, k) ==
    IF k = 1
    THEN encodeDiff(calculateDiff(
             orEmpty(show(s, versionsOf(s)[Len(versionsOf(s))])), text))
    ELSE <<"=">> \o versionsOf(s)[k - 1] \o <<":">>
             \o encodeDiff(calculateDiff(
                    orEmpty(show(s, versionsOf(s)[k - 1])), text))

\* The lengths of the candidates as serialized records named name.
candidateLengths(s, text, name) ==
    [k \in 1..Len(versionsOf(s)) |->
        serializedLength(name, candidateAt(s, text, k))]

\* Of the candidates with these lengths, candidate k is one of the
\* shortest, and the first of them.
isEarliestShortest(lengths, k) ==
    /\ \A j \in 1..Len(lengths) : lengths[k] <= lengths[j]
    /\ \A j \in 1..(k - 1) : lengths[j] > lengths[k]

\* commit(s, text, version) = result appended the record named name, s held
\* a record, and text is the text of no version of s.
appendsNewContent(s, text, name, result) ==
    /\ Len(versionsOf(s)) >= 1
    /\ versionsOf(result) = Append(versionsOf(s), name)
    /\ \A i \in 1..Len(versionsOf(s)) : show(s, versionsOf(s)[i]) # text

\* The payload stored under name is the first of the shortest candidates.
storedEarliestShortest(s, text, name, result, lengths) ==
    \E k \in 1..Len(lengths) :
        /\ isEarliestShortest(lengths, k)
        /\ payloadOf(result, name) = candidateAt(s, text, k)

\* What C15 asks of commit(s, text, version) = result, which names the new
\* version name.
shortestCandidateStored(s, text, name, result) ==
    (result # Thrown /\ appendsNewContent(s, text, name, result))
        => storedEarliestShortest(s, text, name, result,
                                  candidateLengths(s, text, name))

\* C15 (optimal encoding selection): when commit appends a non-first record
\* whose text is the text of no existing version, the payload stored is the
\* first of the shortest candidates, the candidates being the edits from the
\* predecessor and then one reference with edits per earlier version in
\* ascending position.
C15_ShortestCandidateStored ==
    \A args \in CommitArgs :
        shortestCandidateStored(storage, args[1],
                                assignedName(storage, args[1], args[2]),
                                commit(storage, args[1], args[2]))

\* commit(s, text, version) = result appended new content as a reference
\* with edits, the second candidate, which is the shortest.
hybridStored(s, text, name, result) ==
    /\ appendsNewContent(s, text, name, result)
    /\ recordKind(result, name) = "HybridReference"
    /\ isEarliestShortest(candidateLengths(s, text, name), 2)

\* A storage of two versions to which a commit appends new content as a
\* reference with edits, which is shorter than the edits from the
\* predecessor.
C15_Witness ==
    /\ Len(versionsOf(storage)) = 2
    /\ \E args \in Commits :
          hybridStored(storage, args[1],
                       assignedName(storage, args[1], args[2]),
                       commit(storage, args[1], args[2]))

\* C16 (edit-script decoding fails on corruption): decoding a script that
\* holds an unknown operation tag, or an R, D or I whose length is missing,
\* no number or truncated, reports an error and returns no script, and show
\* of a version with such a payload fails and returns no text.
C16_DecodeFailsOnCorruption ==
    /\ applied = "decodeDiff" => "operations" \notin DOMAIN output
    /\ applied = "show" => output = Thrown

\* C17 (show returns null exactly when the name is absent): for every
\* reachable storage, show of a name that is not in the log is null, and show
\* of a name that is in the log is a text, neither null nor an exception.
C17_ShowNullIffAbsent ==
    /\ show(storage, AbsentVersion) = Null
    /\ \A i \in 1..Len(log(storage)) :
          isText(show(storage, log(storage)[i].version))

\* C18 (reset and squash fail on a missing anchor): for every reachable
\* storage, reset and squash to a name that is not in the log raise an error
\* and return no storage, and reset and squash to a name that is in the log
\* return a storage.
C18_MissingAnchorFails ==
    /\ reset(storage, AbsentVersion) = Thrown
    /\ squash(storage, AbsentVersion) = Thrown
    /\ \A i \in 1..Len(log(storage)) :
          /\ reset(storage, log(storage)[i].version) # Thrown
          /\ squash(storage, log(storage)[i].version) # Thrown

\* What the engine with the provider is to return when the provider-less
\* engine returns result: a mutator's storage compressed, an error thrown or
\* the result of a reader as it is.
transparent(operation, result) ==
    IF operation \in Mutators
    THEN (IF result = Thrown THEN Thrown ELSE providerCompress(result))
    ELSE result

\* C19 (compression transparency): with a provider for which
\* decompress(compress(x)) = x, after every sequence of operations each
\* operation of the engine with the provider on the storage S is the
\* operation of the provider-less engine on decompress(S): commit, reset and
\* squash return the compressed result, show, log and latest the same
\* result.
C19_CompressionTransparent ==
    "providerLess" \in DOMAIN output =>
        output.withProvider = transparent(applied, output.providerLess)

\* The two engines have committed to a compressed storage of two versions,
\* which the provider-less engine does not read as it is.
C19_Witness ==
    /\ "providerLess" \in DOMAIN output
    /\ applied = "commit"
    /\ output.withProvider # Thrown
    /\ Len(parseStorage(storage).versions) = 2
    /\ parseStorage(input.storage) = emptyData

\* C20 (latest): latest of a storage with no record is the empty text, and
\* latest of every other reachable storage is show of the last name of its
\* log.
C20_LatestIsLastShown ==
    IF Len(log(storage)) = 0
    THEN latest(storage) = <<>>
    ELSE latest(storage)
             = show(storage, log(storage)[Len(log(storage))].version)

\* commit(s, text, version) = result stored the version under exactly name,
\* and where the record stored refers to an earlier version (its payload
\* starts with '='), show of name is the committed text.
namedVersionShown(s, text, name, result) ==
    /\ versionsOf(result) = Append(versionsOf(s), name)
    /\ isText(show(result, name))
    /\ startsWith(payloadOf(result, name), "=") => show(result, name) = text

\* C21 (names of any content): a version whose name holds ':', '=' or
\* digits is parsed back with exactly that name and can be shown, and a later
\* commit that stores a Reference or a HybridReference to it shows the
\* committed text.
C21_NamesOfAnyContent ==
    \A args \in NamedCommitArgs :
        namedVersionShown(storage, args[1],
                          assignedName(storage, args[1], args[2]),
                          commit(storage, args[1], args[2]))

\* h * 31 + charCode wrapped to 32 bits, h kept as its two 16-bit halves.
foldStep(h, charCode) ==
    [hi |-> (h.hi * 31 + ((h.lo * 31 + charCode) \div Half)) % Half,
     lo |-> (h.lo * 31 + charCode) % Half]

RECURSIVE fold(_, _)
fold(text, h) ==
    IF text = <<>> THEN h
    ELSE fold(Tail(text), foldStep(h, charCodeAt(Head(text))))

\* The magnitude of the signed 32-bit integer with the halves of h (below
\* 2^31 for every text of the model).
magnitude(h) ==
    IF h.hi < Half \div 2 THEN h.hi * Half + h.lo
    ELSE (Half - 1 - h.hi) * Half + (Half - h.lo)

\* The base-36 rendering of the natural number n.
RECURSIVE base36(_)
base36(n) ==
    IF n < 36 THEN <<Base36Digits[n + 1]>>
    ELSE Append(base36(n \div 36), Base36Digits[(n % 36) + 1])

\* The default name of text before it is made unique.
defaultName(text) == base36(magnitude(fold(text, [hi |-> 0, lo |-> 0])))

\* commit(s, text) = result stored the version under name, the first free
\* name among the default name of text followed by 0, 1, 2, ... '#'.
defaultNameGiven(s, text, name, result) ==
    /\ isFirstFreeName(s, defaultName(text), name)
    /\ versionsOf(result) = Append(versionsOf(s), name)

C23_ResolutionTerminates ==
    /\ \A version \in Targets(storage) : show(storage, version) # RangeError
    /\ \A args \in CommitArgs : commit(storage, args[1], args[2]) # Thrown

\* The first n lines of the storage s, character for character.
firstLines(s, n) == join(SubSeq(split(s), 1, n))

\* C24 (reset does not re-encode): for every reachable storage and every
\* name in it, at position i, reset to the name returns exactly the first i
\* record lines of the storage, character for character, whatever the stored
\* texts (backslashes and escaped line breaks included).
C24_ResetKeepsLines ==
    \A i \in 1..Len(versionsOf(storage)) :
        reset(storage, versionsOf(storage)[i]) = firstLines(storage, i)

\* The operations of a script up to its last operation that is no Retain.
untilLastChange(operations) ==
    SubSeq(operations, 1,
           CHOOSE i \in 0..Len(operations) :
               /\ i > 0 => operations[i].type # "retain"
               /\ \A j \in (i + 1)..Len(operations) :
                      operations[j].type = "retain")

\* C25 (trailing-retain omission is lossless): for every base text and every
\* script of non-empty Retain, Delete and Insert operations (the inserted
\* texts may hold digits, ':', 'R', 'D', 'I'), decoding the encoded script
\* gives the script without its trailing Retain operations, and applying
\* that to the base gives the text the full script gives.
C25_TrailingRetainLossless ==
    /\ applied \in {"decodeDiff", "applyDiff"}
          => output.decoded = untilLastChange(input.operations)
    /\ applied = "applyDiff" => output.resultOfDecoded = output.result

\* A script that ends with Retain operations after an Insert whose text is
\* read as an operation when it is not skipped by its length, applied to a
\* base that is longer than what the script consumes.
C25_Witness ==
    /\ applied = "applyDiff"
    /\ input.operations = <<Delete(1), Insert(<<"R", "2">>), Retain(1)>>
    /\ input.text = <<"a", "b", "c", "d", "e">>
    /\ output.encoded = <<"D", "1", "I", "2", ":", "R", "2">>
    /\ output.result = <<"R", "2", "b", "c", "d", "e">>

\* The part of a line before its first colon, the colon that marks a
\* snapshot line not counted; the whole line when it has no colon.
lengthPrefix(line) ==
    IF startsWith(line, ":")
    THEN substring(line, 1, Max(1, 1 + indexOf(substringFrom(line, 1), ":", 0)))
    ELSE substring(line, 0, Max(0, indexOf(line, ":", 0)))

isDecimalNumber(s) == Len(s) > 0 /\ \A i \in 1..Len(s) : isDigit(s[i])

\* A line that is not blank, has a decimal number for its length prefix and
\* has its name followed by the separator.
isRecordLine(line) ==
    /\ ~isBlank(line)
    /\ includes(line, ":")
    /\ isDecimalNumber(lengthPrefix(line))
    /\ ~parseLine(line).skip

\* C26 (tolerant parse): a line whose length prefix is no decimal number
\* (a prefix that only starts with digits, such as '2x', included) or whose
\* name is not followed by the separator gives no record, and every other
\* line of the storage gives its record, in order.
C26_TolerantParse ==
    applied = "parseStorage"
        => output = parseLines(SelectSeq(input, isRecordLine), emptyData)

\* The versions of s are shown in result as they are shown in s.
shownAsBefore(s, result) ==
    result # Thrown
        => \A i \in 1..Len(versionsOf(s)) :
               show(result, versionsOf(s)[i]) = show(s, versionsOf(s)[i])

\* C27 (commit leaves the existing versions untouched): for every reachable
\* storage S, storages after a squash or a reset included, every name v of
\* log(S), every text t and every name n, names that a squash or a reset
\* removed included, show(commit(S, t, n), v) = show(S, v).
C27_CommitKeepsVersions ==
    \A args \in CommitArgs :
        shownAsBefore(storage, commit(storage, args[1], args[2]))

\* The pure Reference record at position i of s names a record at a lower
\* position that is no pure Reference, and no record before that one
\* shows the same text.
referenceToLowest(s, i, target) ==
    /\ positionOf(s, target) \in 1..(i - 1)
    /\ recordKind(s, target) \in {"Snapshot", "Delta", "HybridReference"}
    /\ show(s, target) = show(s, versionsOf(s)[i])
    /\ \A j \in 1..(positionOf(s, target) - 1) :
           show(s, versionsOf(s)[j]) # show(s, target)

====
